---- MODULE Spec2Model ----
(***************************************************************************)
(* A model of src/app/app.py, the BskyMusic bot: the scheduler loop, the   *)
(* check cycle (check_now_playing) with the dedup ledger (the sqlite table *)
(* posts), the hashtag facet builder and the image re-encoding loop.       *)
(*                                                                         *)
(* Text is a sequence of characters. A character is a token: an ASCII      *)
(* character stands for itself, a non-ASCII character is named by its code *)
(* point ("U2013" is the en dash). Python's len() counts the tokens, the   *)
(* UTF-8 encoding (Utf8) turns each token into 1 to 4 bytes.               *)
(***************************************************************************)
EXTENDS Integers, Sequences, FiniteSets, TLC

VARIABLES
    pc,         \* position of the __main__ script
    clock,      \* the current UTC day (datetime.utcnow().date())
    ledger,     \* the rows of the table posts, in insertion (id) order
    loggedIn,   \* whether the atproto client holds a session
    cycles,     \* number of check cycles run so far
    published,  \* history: one entry per send_post that succeeded
    last,       \* history: what the check cycle before this point did,
                \* forgotten during the sleep
    fc,         \* the facet builder's call: input and result
    rz          \* the image normalizer's call: input and result

vars == <<pc, clock, ledger, loggedIn, cycles, published, last, fc, rz>>

----------------------------------------------------------------------------
(* Bounds of the model *)

MaxCycles == 3
MaxDay == 1
MaxCaptionLen == 3
MaxTags == 2

----------------------------------------------------------------------------
(* Configuration constants of the program *)

CHECK_INTERVAL == 240
MAX_IMAGE_SIZE == 972800
MAX_IMAGE_DIMENSION == 2000
StartQuality == 95
QualityStep == 10
QualityFloor == 10

----------------------------------------------------------------------------
(* Text *)

\* Python's None, where a string is expected.
None == <<"<None>">>

\* str(x) as an f-string formats it.
Str(x) == IF x = None THEN <<"N", "o", "n", "e">> ELSE x

\* The number of bytes of a character's UTF-8 encoding.
Utf8Len(c) ==
    CASE c \in {"U1F3A7", "U1F3B5"} -> 4
      [] c \in {"U2013", "U25B0", "U25B1", "U3000"} -> 3
      [] c \in {"U00E9"} -> 2
      [] OTHER -> 1

\* The UTF-8 encoding of a text: byte i of character c is <<c, i>>.
RECURSIVE Utf8(_)
Utf8(s) ==
    IF s = <<>> THEN <<>>
    ELSE [i \in 1..Utf8Len(Head(s)) |-> <<Head(s), i>>] \o Utf8(Tail(s))

\* b[from:to] of a byte string, 0-based and end-exclusive, clipped as Python
\* clips a slice.
Slice(b, from, to) ==
    LET lo == IF from < 0 THEN 0 ELSE from
        hi == IF to > Len(b) THEN Len(b) ELSE to
    IN  IF hi <= lo THEN <<>> ELSE SubSeq(b, lo + 1, hi)

\* " ".join(parts)
RECURSIVE JoinSpace(_)
JoinSpace(parts) ==
    IF parts = <<>> THEN <<>>
    ELSE IF Len(parts) = 1 THEN parts[1]
    ELSE parts[1] \o <<" ">> \o JoinSpace(Tail(parts))

\* Characters that are whitespace (str.isspace) in the model's alphabet: the
\* space, the tab, the newline, the no-break space and the ideographic space.
Whitespace == {" ", "\t", "\n", "U00A0", "U3000"}

\* s.replace(' ', '')
RemoveSpaces(s) == SelectSeq(s, LAMBDA c : c # " ")

\* The strings over an alphabet, up to a length.
RECURSIVE StringsUpTo(_, _)
StringsUpTo(alphabet, n) ==
    IF n = 0 THEN {<<>>}
    ELSE LET shorter == StringsUpTo(alphabet, n - 1)
         IN  shorter \cup {Append(s, c) : s \in shorter, c \in alphabet}

\* The sequences over a set, up to a length.
RECURSIVE SeqsUpTo(_, _)
SeqsUpTo(S, n) ==
    IF n = 0 THEN {<<>>}
    ELSE LET shorter == SeqsUpTo(S, n - 1)
         IN  shorter \cup {Append(s, x) : s \in shorter, x \in S}

----------------------------------------------------------------------------
(* Hashtag facets: create_hashtag_facets *)

\* Mutant: the tag keeps the hashtag's leading #.
KeepFirst(s) == s

\* hashtag[1:]
DropFirst(s) == IF s = <<>> THEN <<>> ELSE Tail(s)

\* The for loop of create_hashtag_facets: one facet per hashtag, current_pos
\* advancing by len(hashtag) + 1.
RECURSIVE facet_loop(_, _)
facet_loop(hashtags, current_pos) ==
    IF hashtags = <<>> THEN <<>>
    ELSE LET hashtag == Head(hashtags)
             facet == [tag        |-> DropFirst(hashtag),
                       byte_start |-> current_pos,
                       byte_end   |-> current_pos + Len(hashtag)]
         IN  <<facet>> \o facet_loop(Tail(hashtags), current_pos + Len(hashtag) + 1)

\* hashtag_start = len(text) + 2: len() of a str counts characters.
hashtag_start(text) == Len(text) + 2

create_hashtag_facets(text, hashtags) ==
    [full_text |-> text \o <<"\n", "\n">> \o JoinSpace(hashtags),
     facets    |-> facet_loop(hashtags, hashtag_start(text))]

----------------------------------------------------------------------------
(* Image processing: resize_image *)

\* The qualities the loop can pass to the encoder: 95, 85, ..., 5.
QualityLevels == {StartQuality - QualityStep * k : k \in 0..(StartQuality \div QualityStep)}

\* The sizes an encoding is sampled at: under, at and over the byte budget.
SizeSamples == {MAX_IMAGE_SIZE - 1, MAX_IMAGE_SIZE, MAX_IMAGE_SIZE + 1}

\* The widths and heights an image is sampled at: within, at and over the
\* maximum dimension.
DimSamples == {1, 1500, MAX_IMAGE_DIMENSION, MAX_IMAGE_DIMENSION + 1, 2105, 4000}

\* No image (None where bytes are expected).
NoImage ==
    [kind |-> "none", ok |-> FALSE, width |-> 0, height |-> 0,
     sizes |-> [q \in QualityLevels |-> 0]]

\* Image bytes: ok says whether PIL opens and processes them without raising,
\* width and height are img.size, sizes[q] is the size of the JPEG encoding
\* of the processed image at quality q.
ImageBytes(ok, width, height, sizes) ==
    [kind |-> "bytes", ok |-> ok, width |-> width, height |-> height,
     sizes |-> sizes]

\* The encoder gives no larger an output at a lower quality.
SizeProfiles ==
    {f \in [QualityLevels -> SizeSamples] :
        \A q1, q2 \in QualityLevels : q1 < q2 => f[q1] <= f[q2]}

\* Python's float is the IEEE 754 double: 53 significant bits, each
\* operation rounded to the nearest double, ties to the even one.
MantissaBits == 53

RECURSIVE Pow2(_)
Pow2(n) == IF n = 0 THEN 1 ELSE 2 * Pow2(n - 1)

\* (a * 2^n) mod m
RECURSIVE ShiftMod(_, _, _)
ShiftMod(a, n, m) == IF n = 0 THEN a % m ELSE (2 * ShiftMod(a, n - 1, m)) % m

\* The least c with 2^c >= n.
CeilLog2(n) == CHOOSE c \in 0..30 : Pow2(c) >= n /\ (c = 0 \/ Pow2(c - 1) < n)

\* The larger of width and height.
larger(width, height) == IF width > height THEN width ELSE height

\* The double nearest to MAX_IMAGE_DIMENSION / d, for a d above the maximum:
\* with k = 52 + shift the exponent that gives the quotient 53 bits, it is
\* m / 2^k for the integer m nearest to MAX_IMAGE_DIMENSION * 2^k / d (of two
\* equally near, the even one). rem is the remainder of that division and
\* qOdd says whether its quotient is odd. The double is recorded by d, shift
\* and its error err = d * m - MAX_IMAGE_DIMENSION * 2^k.
rounded(d, shift, rem, qOdd) ==
    [d     |-> d,
     shift |-> shift,
     err   |-> IF 2 * rem > d \/ (2 * rem = d /\ qOdd) THEN d - rem ELSE 0 - rem]

quotient(d, shift) ==
    rounded(d, shift,
            ShiftMod(MAX_IMAGE_DIMENSION, MantissaBits - 1 + shift, d),
            ShiftMod(MAX_IMAGE_DIMENSION, MantissaBits - 1 + shift, 2 * d) >= d)

\* ratio = min(MAX_IMAGE_DIMENSION / width, MAX_IMAGE_DIMENSION / height):
\* the float quotient for the larger dimension (the rounded division is
\* monotone).
ratio(width, height) ==
    quotient(larger(width, height),
             CeilLog2((larger(width, height) + MAX_IMAGE_DIMENSION - 1)
                        \div MAX_IMAGE_DIMENSION))

\* int() of the float product x * ratio, where n and s are the quotient and
\* the remainder of x * MAX_IMAGE_DIMENSION by d. The exact product is
\* x * MAX_IMAGE_DIMENSION / d plus x * err / (d * 2^k). Where the first term
\* is not an integer (s > 0) the second is too small to change the integer
\* part. Where it is the integer n, the float product is n unless the exact
\* product lies below n by more than half the distance from n to the double
\* before it, and then int() gives n - 1.
truncated(n, s, x, r) ==
    IF s = 0 /\ r.err < 0
       /\ 2 * x * (0 - r.err) > r.d * Pow2(r.shift + CeilLog2(n) - 1)
    THEN n - 1
    ELSE n

\* int(x * ratio)
scale(x, r) ==
    truncated((x * MAX_IMAGE_DIMENSION) \div r.d, (x * MAX_IMAGE_DIMENSION) % r.d, x, r)

\* (new_width, new_height)
scaled_size(width, height, r) ==
    [width |-> scale(width, r), height |-> scale(height, r)]

\* img.size after the resize step: untouched within the maximum.
new_size(width, height) ==
    IF width > MAX_IMAGE_DIMENSION \/ height > MAX_IMAGE_DIMENSION
    THEN scaled_size(width, height, ratio(width, height))
    ELSE [width |-> width, height |-> height]

\* img.resize raises ValueError for a width or height below 1.
resize_raises(size) == size.width < 1 \/ size.height < 1

\* The while loop of resize_image from the given quality on: the number of
\* encodes it runs and the quality and size of the last one.
RECURSIVE encode_loop(_, _, _)
encode_loop(img, quality, encodes) ==
    LET size == img.sizes[quality]
    IN  IF size < MAX_IMAGE_SIZE \/ quality <= QualityFloor
        THEN [quality |-> quality, size |-> size, encodes |-> encodes + 1]
        ELSE encode_loop(img, quality - QualityStep, encodes + 1)

\* None (ok = FALSE) when anything in the try block raises, else the buffer.
NoBuffer ==
    [ok |-> FALSE, width |-> 0, height |-> 0, quality |-> 0, size |-> 0,
     encodes |-> 0]

\* The encoding of the image at its size after the resize step.
encoded(out, dims) ==
    IF resize_raises(dims) THEN NoBuffer
    ELSE [ok |-> TRUE, width |-> dims.width, height |-> dims.height,
          quality |-> out.quality, size |-> out.size, encodes |-> out.encodes]

resize_image(img) ==
    IF ~img.ok THEN NoBuffer
    ELSE encoded(encode_loop(img, StartQuality, 0), new_size(img.width, img.height))

----------------------------------------------------------------------------
(* The dedup ledger: the table posts *)

\* SQL's = in a WHERE clause: a comparison with NULL is never true.
SqlEq(column, param) == column # None /\ param # None /\ column = param

\* Mutant: an error of the database is swallowed where it occurs.
sqlite_error_swallowed(ok) == FALSE

\* already_posted_today and save_post have no try/except, nor has
\* check_now_playing around its calls of them: an sqlite3 error of the
\* connect, execute or commit leaves the function as an exception.
sqlite_raises(ok) == ~ok

already_posted_today(rows, artist, title, today) ==
    \E i \in DOMAIN rows :
        /\ SqlEq(rows[i].artist, artist)
        /\ SqlEq(rows[i].title, title)
        /\ rows[i].post_date = today

save_post(rows, artist, title, today) ==
    Append(rows, [artist |-> artist, title |-> title, post_date |-> today])

----------------------------------------------------------------------------
(* The remote services, as the values their responses can take *)

Artist1 == <<"A", " ", "B">>
\* An artist name written with an ideographic space (U+3000).
Artist2 == <<"C", "U3000", "D">>
Title1 == <<"T">>
Mbid1 == <<"m">>

\* What get_now_playing returns: None (playing = FALSE) or the dict.
NoTrack == [playing |-> FALSE, artist |-> None, title |-> None, release_mbid |-> None]

TrackMetadata ==
    {[artist_name |-> Artist1, track_name |-> Title1, release_mbid |-> Mbid1],
     [artist_name |-> Artist2, track_name |-> None,   release_mbid |-> None],
     [artist_name |-> None,    track_name |-> Title1, release_mbid |-> None],
     [artist_name |-> <<>>,    track_name |-> <<>>,   release_mbid |-> None]}

NoMetadata == [artist_name |-> None, track_name |-> None, release_mbid |-> None]

\* The playing-now responses: the request raises, a non-200 status, a body
\* without payload/listens, an empty listens list, or one listen.
LBResponses ==
    {[kind |-> k, track_metadata |-> NoMetadata] :
        k \in {"raises", "status_not_200", "no_payload", "no_listens"}}
    \cup {[kind |-> "listen", track_metadata |-> m] : m \in TrackMetadata}

\* The MusicBrainz responses: the request raises, a non-200 status, no
\* artists, or the first artist's tags.
GenreRock == <<"r", "o", "c", "k">>
GenreIndie == <<"i", " ", "r">>
GenrePop == <<"p">>
GenreJazz == <<"j">>

GenreResponses ==
    {[kind |-> k, tags |-> <<>>] : k \in {"raises", "status_not_200", "no_artists"}}
    \cup {[kind |-> "tags", tags |-> t] :
            t \in {<<GenreIndie, GenreRock, GenrePop, GenreJazz>>}}

\* The Cover Art Archive responses: the request raises, a non-200 status, or
\* the image bytes.
SmallImage == ImageBytes(TRUE, 1500, 1500, [q \in QualityLevels |-> MAX_IMAGE_SIZE - 1])
BrokenImage == ImageBytes(FALSE, 0, 0, [q \in QualityLevels |-> 0])

ArtResponses ==
    {[kind |-> k, content |-> NoImage] : k \in {"raises", "status_not_200"}}
    \cup {[kind |-> "ok", content |-> i] : i \in {SmallImage, BrokenImage}}

\* How the Bluesky calls of one post_to_bluesky go: whether upload_blob and
\* send_post succeed, and which of safe_login's two login attempts do.
PublishOutcomes ==
    {[upload_ok |-> TRUE, send_ok |-> TRUE, login |-> "first"]}
    \cup {[upload_ok |-> u, send_ok |-> FALSE, login |-> l] :
            u \in BOOLEAN, l \in {"first", "second", "never"}}

----------------------------------------------------------------------------
(* safe_login *)

\* The first client.login succeeds, or the retry after it does, or the retry
\* raises out of safe_login.
safe_login(login) ==
    [raised   |-> login = "never",
     attempts |-> IF login = "first" THEN 1 ELSE 2,
     session  |-> login # "never"]

----------------------------------------------------------------------------
(* get_now_playing, get_album_art, get_genres *)

\* dict.get(key): None when the key is missing.
get_now_playing(resp) ==
    IF resp.kind = "raises" THEN [raised |-> TRUE, track |-> NoTrack]
    ELSE IF resp.kind \in {"status_not_200", "no_payload", "no_listens"}
    THEN [raised |-> FALSE, track |-> NoTrack]
    ELSE [raised |-> FALSE,
          track  |-> [playing      |-> TRUE,
                      artist       |-> resp.track_metadata.artist_name,
                      title        |-> resp.track_metadata.track_name,
                      release_mbid |-> resp.track_metadata.release_mbid]]

\* `if not mbid`: None and the empty string are falsy.
Falsy(s) == s = None \/ s = <<>>

\* The request is made only for a truthy mbid.
art_requested(mbid) == ~Falsy(mbid)

get_album_art(mbid, resp) ==
    IF ~art_requested(mbid) THEN NoImage
    ELSE IF resp.kind = "ok" THEN resp.content
    ELSE NoImage

\* tags[:3]
FirstThree(tags) == SubSeq(tags, 1, IF Len(tags) < 3 THEN Len(tags) ELSE 3)

get_genres(artist, resp) ==
    IF resp.kind = "tags" THEN FirstThree(resp.tags) ELSE <<>>

----------------------------------------------------------------------------
(* post_to_bluesky *)

NoEmbed == [present |-> FALSE, image |-> NoBuffer, alt |-> <<>>]

\* text.split('\n')[0]
RECURSIVE FirstLine(_)
FirstLine(text) ==
    IF text = <<>> \/ Head(text) = "\n" THEN <<>>
    ELSE <<Head(text)>> \o FirstLine(Tail(text))

\* `if image_bytes`: None is falsy.
has_image(image_bytes) == image_bytes.kind = "bytes"

\* Mutant: the result of resize_image is uploaded without the test for None.
uploads_blob_unchecked(image_bytes, resized) == has_image(image_bytes)

\* The branch that calls upload_blob: image_bytes is truthy and
\* `not resized_image` is false.
uploads_blob(image_bytes, resized) == has_image(image_bytes) /\ resized.ok

\* Mutant: the except block returns success as the try block does.
post_returns_success(failed) == TRUE

\* What the function returns when every call in the try block went through,
\* and after the except block's safe_login came back.
post_returns(failed) == ~failed

\* The calls post_to_bluesky makes and what it returns. A call to Bluesky goes
\* through when the service answers it (outcome) and the client holds a
\* session; the first call that raises ends the try block.
post_to_bluesky(text, image_bytes, hashtags, outcome, session) ==
    LET built     == IF hashtags # <<>>
                     THEN create_hashtag_facets(text, hashtags)
                     ELSE [full_text |-> text, facets |-> <<>>]
        resized   == IF has_image(image_bytes) THEN resize_image(image_bytes) ELSE NoBuffer
        uploading == uploads_blob(image_bytes, resized)
        upload_ok == outcome.upload_ok /\ session
        sending   == ~uploading \/ upload_ok
        send_ok   == outcome.send_ok /\ session
        failed    == (uploading /\ ~upload_ok) \/ (sending /\ ~send_ok)
        relogin   == safe_login(outcome.login)
        embed     == IF uploading
                     THEN [present |-> TRUE, image |-> resized, alt |-> FirstLine(text)]
                     ELSE NoEmbed
    IN  [success |-> IF failed /\ relogin.raised THEN FALSE ELSE post_returns(failed),
         raised  |-> failed /\ relogin.raised,
         uploads |-> IF uploading THEN 1 ELSE 0,
         sends   |-> IF sending
                     THEN <<[text |-> built.full_text, facets |-> built.facets,
                             embed |-> embed, ok |-> send_ok]>>
                     ELSE <<>>,
         logins  |-> IF failed THEN relogin.attempts ELSE 0,
         session |-> IF failed THEN relogin.session ELSE session]

----------------------------------------------------------------------------
(* check_now_playing: assembling the post *)

NowPlayingTag == <<"#", "N", "o", "w", "P", "l", "a", "y", "i", "n", "g">>

\* '#' + s.replace(' ', '')
hashtag_of(s) == <<"#">> \o RemoveSpaces(s)

\* genre tags, in order
genre_tags(genres) == [i \in DOMAIN genres |-> hashtag_of(genres[i])]

\* artist.replace raises AttributeError on None.
assemble_raises(artist) == artist = None

\* Mutant: the artist hashtag is left out.
build_hashtags_no_artist(artist, genres) ==
    <<NowPlayingTag>> \o genre_tags(genres)

build_hashtags(artist, genres) ==
    <<NowPlayingTag, hashtag_of(artist)>> \o genre_tags(genres)

generate_progress_bar ==
    [i \in 1..7 |-> "U25B0"] \o [i \in 1..3 |-> "U25B1"]

build_post_text(artist, title) ==
    <<"U1F3A7", " ", "K", "e", "e", "C", "l", "o", "u", "d", " ",
      "M", "u", "s", "i", "c", "\n", "\n", "U1F3B5", " ">>
    \o Str(artist) \o <<" ", "U2013", " ">> \o Str(title)
    \o <<"\n", "\n">> \o generate_progress_bar

\* Mutant: the cycle goes on with whatever the fetch returned.
nothing_playing_never(track) == FALSE

\* `if not track`: the dict, when returned, is never empty.
nothing_playing(track) == ~track.playing

\* Mutant: the track is recorded whatever the publish returned.
should_record_always(success) == TRUE

\* `if success: save_post(...)`
should_record(success) == success

----------------------------------------------------------------------------
(* The check cycle and the scheduler loop *)

\* What a cycle did: how far it got (stage), the calls it made and whether
\* an exception escaped it.
NoCycle ==
    [stage        |-> "none",
     response     |-> "none",
     track        |-> NoTrack,
     checkedOn    |-> 0,
     ledgerReads  |-> 0,
     wasPosted    |-> FALSE,
     genreLookups |-> 0,
     genreResp    |-> "none",
     genres       |-> <<>>,
     artLookups   |-> 0,
     artResp      |-> "none",
     hashtags     |-> <<>>,
     text         |-> <<>>,
     image        |-> NoImage,
     postCalls    |-> 0,
     uploads      |-> 0,
     sends        |-> <<>>,
     logins       |-> 0,
     success      |-> FALSE,
     saves        |-> <<>>,
     raised       |-> FALSE]

\* Mutant: an exception that escapes the cycle ends the script.
after_check_uncaught(at, raised) ==
    IF raised THEN "crashed"
    ELSE IF at = "initial_check" THEN "loop_check" ELSE "sleep"

\* The try/except around check_now_playing: whatever the cycle raised, the
\* script goes on, to the loop after the initial check and to the sleep after
\* a check of the loop.
after_check(at, raised) == IF at = "initial_check" THEN "loop_check" ELSE "sleep"

\* The end of a cycle: its record and the state it leaves.
Finish(log, rows, day, session, pubs) ==
    /\ last' = log
    /\ ledger' = rows
    /\ clock' = day
    /\ loggedIn' = session
    /\ published' = pubs
    /\ cycles' = cycles + 1
    /\ pc' = after_check(pc, log.raised)
    /\ UNCHANGED <<fc, rz>>

\* The days the clock can show after a step that takes time.
LaterDays(day) == {d \in {day, day + 1} : d <= MaxDay}

\* The cycle from the publish on: post_to_bluesky and save_post at day
\* postDay, the day of the dedup check or the one after it.
PublishAndRecord(log, track, text, image, hashtags) ==
    \E outcome \in PublishOutcomes, postDay \in LaterDays(clock) :
        LET post == post_to_bluesky(text, image, hashtags, outcome, loggedIn)
            pubs == IF \E i \in DOMAIN post.sends : post.sends[i].ok
                    THEN Append(published, [artist |-> track.artist,
                                            title |-> track.title,
                                            post_date |-> postDay])
                    ELSE published
            posted == [log EXCEPT !.postCalls = 1, !.uploads = post.uploads,
                                  !.sends = post.sends, !.logins = post.logins,
                                  !.success = post.success]
        IN  IF post.raised
            THEN Finish([posted EXCEPT !.stage = "relogin_raised", !.raised = TRUE],
                        ledger, postDay, post.session, pubs)
            ELSE IF ~should_record(post.success)
            THEN Finish([posted EXCEPT !.stage = "publish_failed"],
                        ledger, postDay, post.session, pubs)
            ELSE \E writeOk \in BOOLEAN :
                    LET saveDay == postDay
                        saving == [posted EXCEPT
                                     !.saves = <<[artist |-> track.artist,
                                                  title |-> track.title,
                                                  post_date |-> saveDay]>>]
                    IN  IF writeOk
                        THEN Finish([saving EXCEPT !.stage = "recorded"],
                                    save_post(ledger, track.artist, track.title, saveDay),
                                    saveDay, post.session, pubs)
                        ELSE Finish([saving EXCEPT !.stage = "save_raised",
                                                   !.raised = sqlite_raises(writeOk)],
                                    ledger, saveDay, post.session, pubs)

\* The cycle from the genre lookup on.
EnrichAndPublish(log, track) ==
    \E gresp \in GenreResponses :
        LET genres   == get_genres(track.artist, gresp)
            enriched == [log EXCEPT !.genreLookups = 1, !.genreResp = gresp.kind,
                                    !.genres = genres]
        IN  IF assemble_raises(track.artist)
            THEN Finish([enriched EXCEPT !.stage = "assemble_raised", !.raised = TRUE],
                        ledger, clock, loggedIn, published)
            ELSE LET hashtags == build_hashtags(track.artist, genres)
                     text     == build_post_text(track.artist, track.title)
                 IN  \E aresp \in IF art_requested(track.release_mbid)
                                  THEN ArtResponses
                                  ELSE {[kind |-> "none", content |-> NoImage]} :
                        LET image == get_album_art(track.release_mbid, aresp)
                        IN  PublishAndRecord(
                                [enriched EXCEPT !.artLookups = 1, !.artResp = aresp.kind,
                                                 !.hashtags = hashtags,
                                                 !.text = text, !.image = image],
                                track, text, image, hashtags)

\* check_now_playing, with the responses of the services, the failures of
\* the database and the passing of midnight chosen by the environment.
check_now_playing ==
    \E resp \in LBResponses :
        LET np == get_now_playing(resp)
        IN  IF np.raised
            THEN Finish([NoCycle EXCEPT !.stage = "fetch_raised", !.raised = TRUE,
                                        !.response = resp.kind],
                        ledger, clock, loggedIn, published)
            ELSE IF nothing_playing(np.track)
            THEN Finish([NoCycle EXCEPT !.stage = "nothing_playing",
                                        !.response = resp.kind],
                        ledger, clock, loggedIn, published)
            ELSE \E readOk \in BOOLEAN :
                    LET log == [NoCycle EXCEPT !.response = resp.kind,
                                               !.track = np.track, !.ledgerReads = 1,
                                               !.checkedOn = clock]
                    IN  IF ~readOk
                        THEN Finish([log EXCEPT !.stage = "read_raised",
                                                !.raised = sqlite_raises(readOk)],
                                    ledger, clock, loggedIn, published)
                        ELSE IF already_posted_today(ledger, np.track.artist,
                                                     np.track.title, clock)
                        THEN Finish([log EXCEPT !.stage = "already_posted",
                                                !.wasPosted = TRUE],
                                    ledger, clock, loggedIn, published)
                        ELSE EnrichAndPublish(log, np.track)

\* init_db() and safe_login() at the start of the script: a login that fails
\* twice ends the process.
Startup ==
    /\ pc = "startup"
    /\ \E login \in {"first", "second", "never"} :
          LET r == safe_login(login)
          IN  /\ loggedIn' = r.session
              /\ pc' = IF r.raised THEN "crashed" ELSE "initial_check"
    /\ UNCHANGED <<clock, ledger, cycles, published, last, fc, rz>>

\* The initial check on startup.
InitialCheck ==
    /\ pc = "initial_check"
    /\ cycles < MaxCycles
    /\ check_now_playing

\* The check of the while loop.
LoopCheck ==
    /\ pc = "loop_check"
    /\ cycles < MaxCycles
    /\ check_now_playing

\* time.sleep(CHECK_INTERVAL): midnight may pass.
Sleep ==
    /\ pc = "sleep"
    /\ pc' = "loop_check"
    /\ \E day \in LaterDays(clock) : clock' = day
    /\ last' = NoCycle
    /\ UNCHANGED <<ledger, loggedIn, cycles, published, fc, rz>>

FcIdle == [called |-> FALSE, text |-> <<>>, hashtags |-> <<>>,
           full_text |-> <<>>, facets |-> <<>>]

RzIdle == [called |-> FALSE, image |-> NoImage, out |-> NoBuffer]

Init ==
    /\ pc = "startup"
    /\ clock = 0
    /\ ledger = <<>>
    /\ loggedIn = FALSE
    /\ cycles = 0
    /\ published = <<>>
    /\ last = NoCycle
    /\ fc = FcIdle
    /\ rz = RzIdle

Next == Startup \/ InitialCheck \/ LoopCheck \/ Sleep

Spec == Init /\ [][Next]_vars

----------------------------------------------------------------------------
(* The facet builder on its own: create_hashtag_facets applied to a caption  *)
(* and a hashtag list                                                        *)

CaptionAlphabet == {"A", " ", "U2013"}

\* The caption of the spec's example, "A - B" with an en dash.
DashCaption == <<"A", " ", "U2013", " ", "B">>

Captions ==
    StringsUpTo(CaptionAlphabet, MaxCaptionLen)
    \cup {DashCaption, build_post_text(Artist1, Title1)}

FooTag == <<"#", "F", "o", "o">>
AccentTag == <<"#", "B", "U00E9">>

Hashtags == {NowPlayingTag, FooTag, AccentTag}

FacetInputs ==
    {[called |-> FALSE, text |-> t, hashtags |-> h, full_text |-> <<>>, facets |-> <<>>] :
        t \in Captions, h \in SeqsUpTo(Hashtags, MaxTags)}

BuildFacets ==
    /\ pc = "pure"
    /\ ~fc.called
    /\ LET r == create_hashtag_facets(fc.text, fc.hashtags)
       IN  fc' = [fc EXCEPT !.called = TRUE, !.full_text = r.full_text,
                            !.facets = r.facets]
    /\ UNCHANGED <<pc, clock, ledger, loggedIn, cycles, published, last, rz>>

InitFacet ==
    /\ pc = "pure"
    /\ clock = 0
    /\ ledger = <<>>
    /\ loggedIn = FALSE
    /\ cycles = 0
    /\ published = <<>>
    /\ last = NoCycle
    /\ fc \in FacetInputs
    /\ rz = RzIdle

NextFacet == BuildFacets

SpecFacet == InitFacet /\ [][NextFacet]_vars

----------------------------------------------------------------------------
(* The image normalizer on its own: resize_image applied to image bytes      *)

ResizeInputs ==
    {ImageBytes(TRUE, w, h, f) : w \in DimSamples, h \in DimSamples, f \in SizeProfiles}
    \cup {BrokenImage}

Resize ==
    /\ pc = "pure"
    /\ ~rz.called
    /\ rz' = [rz EXCEPT !.called = TRUE, !.out = resize_image(rz.image)]
    /\ UNCHANGED <<pc, clock, ledger, loggedIn, cycles, published, last, fc>>

InitResize ==
    /\ pc = "pure"
    /\ clock = 0
    /\ ledger = <<>>
    /\ loggedIn = FALSE
    /\ cycles = 0
    /\ published = <<>>
    /\ last = NoCycle
    /\ fc = FcIdle
    /\ rz \in {[called |-> FALSE, image |-> i, out |-> NoBuffer] : i \in ResizeInputs}

NextResize == Resize

SpecResize == InitResize /\ [][NextResize]_vars

----------------------------------------------------------------------------
(* Fairness: the script runs on, so a check or a sleep that can run does     *)

LiveSpec ==
    Spec /\ WF_vars(InitialCheck) /\ WF_vars(LoopCheck) /\ WF_vars(Sleep)

----------------------------------------------------------------------------
(* Properties *)

\* A step that is one check cycle.
CycleStep == cycles' = cycles + 1

\* The rows of the ledger with this artist, title and date.
RowsOf(rows, artist, title, day) ==
    {i \in DOMAIN rows : rows[i] = [artist |-> artist, title |-> title, post_date |-> day]}

\* C1: for every (artist, title) and every UTC date, at most one publish
\* succeeds and at most one PostRecord with that (artist, title, date) is in
\* the ledger, whatever fails in the cycles.
C1_AtMostOnePostPerDay ==
    /\ \A i, j \in DOMAIN published : published[i] = published[j] => i = j
    /\ \A i, j \in DOMAIN ledger : ledger[i] = ledger[j] => i = j

\* C2: when a cycle has published and recorded a track, a second cycle on the
\* same UTC day with the same now-playing data (and a ledger that can be read)
\* stops at the already-posted check: no second publish call, and still
\* exactly one PostRecord of the track for that day.
C2_DedupIdempotent ==
    [][(/\ CycleStep
        /\ last.stage = "recorded"
        /\ last'.track = last.track
        /\ last'.checkedOn = last.saves[1].post_date
        /\ last'.stage # "read_raised")
       => (/\ last'.stage = "already_posted"
           /\ last'.postCalls = 0
           /\ Cardinality(RowsOf(ledger', last.track.artist, last.track.title,
                                 last'.checkedOn)) = 1)]_vars

\* C3: slicing the UTF-8 encoding of full_text at [byte_start, byte_end) of
\* the i-th facet gives the encoding of the i-th hashtag; the first range
\* starts at the byte length of the caption plus 2 and each next one starts
\* the byte length of the hashtag plus 1 further.
C3_FacetBytesMatch ==
    fc.called =>
        \A i \in DOMAIN fc.hashtags :
            /\ i \in DOMAIN fc.facets
            /\ Slice(Utf8(fc.full_text), fc.facets[i].byte_start, fc.facets[i].byte_end)
                   = Utf8(fc.hashtags[i])
            /\ i = 1 => fc.facets[i].byte_start = Len(Utf8(fc.text)) + 2
            /\ i > 1 => fc.facets[i].byte_start =
                            fc.facets[i - 1].byte_start + Len(Utf8(fc.hashtags[i - 1])) + 1

\* A cycle that called post_to_bluesky and did not get success back.
PublishFailed(log) == log.postCalls = 1 /\ ~log.success

\* C4: a cycle whose publish does not report success never calls save_post
\* and leaves the ledger as it was, and after it the dedup check does not
\* hold the track for posted.
C4_PublishFailureIsolation ==
    /\ [][(CycleStep /\ PublishFailed(last')) => ledger' = ledger]_vars
    /\ [](PublishFailed(last) =>
            /\ last.saves = <<>>
            /\ ~already_posted_today(ledger, last.track.artist, last.track.title, clock))

\* C4's case: the initial check's publish failed and the session was renewed;
\* the check that follows can publish and record the same track.
C4_Witness ==
    /\ PublishFailed(last)
    /\ last.stage = "publish_failed"
    /\ pc = "loop_check"
    /\ ENABLED (/\ LoopCheck
                /\ last'.track = last.track
                /\ last'.stage = "recorded"
                /\ RowsOf(ledger', last.track.artist, last.track.title, clock') # {})

\* C5: a cycle whose now-playing fetch yields no track (a non-200 response,
\* no payload, an empty listens list) makes no genre or art lookup and no
\* publish call, and writes nothing to the ledger.
C5_NoOpOnSilence ==
    /\ [][(CycleStep /\ last'.response \in {"status_not_200", "no_payload", "no_listens"})
            => ledger' = ledger /\ published' = published]_vars
    /\ [](last.response \in {"status_not_200", "no_payload", "no_listens"} =>
            /\ last.genreLookups = 0
            /\ last.artLookups = 0
            /\ last.postCalls = 0
            /\ last.sends = <<>>
            /\ last.saves = <<>>
            /\ ~last.raised)

C5_Witness ==
    /\ last.response = "no_listens"
    /\ last.stage = "nothing_playing"
    /\ ledger # <<>>

\* A cycle with a playing track that has an artist and is not yet posted,
\* whose art lookup found nothing (or failed, or had no release to look up)
\* and whose genre lookup gave nothing (or failed).
Degraded(log) ==
    /\ log.track.playing
    /\ log.track.artist # None
    /\ log.ledgerReads = 1
    /\ log.stage # "read_raised"
    /\ ~log.wasPosted
    /\ log.genreResp \in {"raises", "status_not_200", "no_artists"}
    /\ log.artResp \in {"raises", "status_not_200", "none"}

\* C6: such a cycle still makes a publish call, which carries no image and
\* whose hashtags hold #NowPlaying and the artist hashtag; when the publish
\* succeeds the track is recorded.
C6_GracefulDegradation ==
    Degraded(last) =>
        /\ last.postCalls = 1
        /\ last.uploads = 0
        /\ Len(last.sends) = 1
        /\ \A i \in DOMAIN last.sends :
              /\ ~last.sends[i].embed.present
              /\ \E j \in DOMAIN last.sends[i].facets :
                    last.sends[i].facets[j].tag = DropFirst(NowPlayingTag)
              /\ \E j \in DOMAIN last.sends[i].facets :
                    last.sends[i].facets[j].tag = RemoveSpaces(last.track.artist)
        /\ \E j \in DOMAIN last.hashtags : last.hashtags[j] = NowPlayingTag
        /\ \E j \in DOMAIN last.hashtags :
              last.hashtags[j] = <<"#">> \o RemoveSpaces(last.track.artist)
        /\ last.success =>
              /\ last.saves # <<>>
              /\ last.saves[1].artist = last.track.artist
              /\ last.saves[1].title = last.track.title
        /\ last.stage = "recorded" =>
              RowsOf(ledger, last.track.artist, last.track.title, clock) # {}

C6_Witness ==
    /\ Degraded(last)
    /\ last.artResp = "status_not_200"
    /\ last.genreResp = "no_artists"
    /\ last.stage = "recorded"

\* C7: for a decodable input the re-encoding loop ends after at most
\* (95 - 10) / 10 + 1 encodes, and the buffer returned is within the maximum
\* byte size or was encoded at the quality floor.
C7_ResizeBound ==
    (rz.called /\ rz.out.ok) =>
        /\ rz.out.encodes <= ((StartQuality - QualityFloor) \div QualityStep) + 1
        /\ rz.out.size <= MAX_IMAGE_SIZE \/ rz.out.quality = QualityFloor

\* C8: an exception that escapes a check cycle (from the fetch, the ledger
\* or a failed re-login) does not end the script: after every cycle, failed
\* or not, the script stands at the loop's check or at the sleep before it,
\* and that step can be taken (as far as the model counts cycles), so that
\* under the fairness of LiveSpec another cycle starts.
C8_SchedulerResilience ==
    /\ last.raised => pc \in {"loop_check", "sleep"}
    /\ cycles > 0 => pc \in {"loop_check", "sleep"}
    /\ pc = "sleep" => ENABLED Sleep
    /\ (pc = "loop_check" /\ cycles < MaxCycles) => ENABLED LoopCheck

\* C8's case: the re-login inside the publish-failure handling raised out of
\* the initial check, and the loop's check can run.
C8_Witness ==
    /\ last.raised
    /\ last.stage = "relogin_raised"
    /\ pc = "loop_check"
    /\ ENABLED LoopCheck

\* The arguments already_posted_today can be called with.
LookupArgs ==
    {<<m.artist_name, m.track_name>> : m \in TrackMetadata}
    \cup {<<ledger[i].artist, ledger[i].title>> : i \in DOMAIN ledger}

\* C9: already_posted_today(artist, title) is true exactly when the ledger
\* holds a PostRecord with that artist, that title and the current UTC date,
\* for every value save_post can have recorded, None included.
C9_LookupIffRecorded ==
    \A a \in LookupArgs :
        already_posted_today(ledger, a[1], a[2], clock)
            <=> RowsOf(ledger, a[1], a[2], clock) # {}

\* C10: a cycle whose track has an absent or empty artist or title makes no
\* publish call and writes nothing to the ledger.
C10_MissingFieldNothingToPost ==
    (last.track.playing /\ (Falsy(last.track.artist) \/ Falsy(last.track.title))) =>
        /\ last.postCalls = 0
        /\ last.sends = <<>>
        /\ last.saves = <<>>

\* C11: for a decodable input with width or height above the maximum
\* dimension, resize_image returns a buffer whose larger dimension equals the
\* maximum and whose other dimension is at least 1, at most the maximum and
\* the input's dimension scaled by maximum / larger dimension, within integer
\* rounding; a decodable input within the maximum keeps its dimensions.
C11_DimensionBound ==
    (rz.called /\ rz.image.ok) =>
        LET w     == rz.image.width
            h     == rz.image.height
            d     == IF w > h THEN w ELSE h
            other == IF w > h THEN h ELSE w
            big   == IF w > h THEN rz.out.width ELSE rz.out.height
            small == IF w > h THEN rz.out.height ELSE rz.out.width
        IN  IF d > MAX_IMAGE_DIMENSION
            THEN /\ rz.out.ok
                 /\ big = MAX_IMAGE_DIMENSION
                 /\ small >= 1
                 /\ small <= MAX_IMAGE_DIMENSION
                 /\ small * d <= other * MAX_IMAGE_DIMENSION + d
                 /\ small * d >= other * MAX_IMAGE_DIMENSION - d
            ELSE rz.out.ok /\ rz.out.width = w /\ rz.out.height = h

\* C12: the first check cycle is the initial check at startup and no other
\* cycle is, and every cycle leaves the script at the sleep, so that no cycle
\* starts before the sleep after the cycle before it has elapsed.
C12_SchedulerCadence ==
    [][CycleStep => /\ (cycles = 0 <=> pc = "initial_check")
                    /\ pc' = "sleep"]_vars

\* C13: for a decodable input the quality of the encode whose buffer is
\* returned is 95 lowered by 10 for every re-encode before it, it is never
\* below the quality floor, and a buffer that is still not under the byte
\* budget was encoded at the floor.
C13_QualityFloor ==
    (rz.called /\ rz.out.ok) =>
        /\ rz.out.quality = StartQuality - QualityStep * (rz.out.encodes - 1)
        /\ rz.out.quality >= QualityFloor
        /\ rz.out.size >= MAX_IMAGE_SIZE => rz.out.quality = QualityFloor

\* A cycle whose post_to_bluesky had a call to Bluesky raise: the upload (no
\* send_post follows it) or the send_post.
CallRaised(log) == log.postCalls = 1 /\ (log.sends = <<>> \/ ~log.sends[1].ok)

\* C14 as stated: a cycle whose upload or send_post raised made a login
\* attempt and had post_to_bluesky return the failure result.
C14_ReturnsFailure ==
    CallRaised(last) => last.logins >= 1 /\ last.stage = "publish_failed"

\* C14: a cycle whose upload or send_post raised made a login attempt in the
\* same call, before any later cycle, and did not get success back nor saved
\* the track: post_to_bluesky returned the failure result with the session
\* renewed, or both of safe_login's attempts failed and its exception ended
\* the cycle.
C14_SessionRefresh ==
    CallRaised(last) =>
        /\ last.logins >= 1
        /\ ~last.success
        /\ last.saves = <<>>
        /\ \/ last.stage = "publish_failed" /\ ~last.raised /\ loggedIn
           \/ last.stage = "relogin_raised" /\ last.raised /\ last.logins = 2

\* C14's case: the upload raised, no send_post followed, the second login
\* attempt went through and the cycle ended without success.
C14_Witness ==
    /\ CallRaised(last)
    /\ last.uploads = 1
    /\ last.sends = <<>>
    /\ last.logins = 2
    /\ last.stage = "publish_failed"

\* A cycle that fetched image bytes which resize_image could not process.
EncodeFailed(log) ==
    log.postCalls = 1 /\ has_image(log.image) /\ ~resize_image(log.image).ok

\* C15: resize_image answers bytes it cannot process with None, and the cycle
\* then makes no upload and one send_post with the text and the facets that
\* create_hashtag_facets gives for the cycle's caption and hashtags and with
\* no embed; when that send_post goes through the cycle reports success and
\* calls save_post for the track.
C15_EncodeFailureTextOnly ==
    EncodeFailed(last) =>
        /\ resize_image(last.image) = NoBuffer
        /\ last.uploads = 0
        /\ Len(last.sends) = 1
        /\ last.sends[1].text =
               create_hashtag_facets(last.text, last.hashtags).full_text
        /\ last.sends[1].facets =
               create_hashtag_facets(last.text, last.hashtags).facets
        /\ last.sends[1].embed = NoEmbed
        /\ last.sends[1].ok =>
               /\ last.success
               /\ last.saves = <<[artist    |-> last.track.artist,
                                  title     |-> last.track.title,
                                  post_date |-> clock]>>
               /\ last.stage \in {"recorded", "save_raised"}
               /\ last.stage = "recorded" =>
                      RowsOf(ledger, last.track.artist, last.track.title, clock) # {}

\* C15's case: the art lookup gave bytes that do not decode, the post went
\* out without an image and the track was recorded.
C15_Witness ==
    /\ EncodeFailed(last)
    /\ last.image = BrokenImage
    /\ last.sends # <<>>
    /\ last.sends[1].ok
    /\ last.stage = "recorded"

\* C16: a cycle whose ledger read failed ends with the exception, after the
\* one read and before any genre lookup, art lookup or publish call; a cycle
\* whose save_post failed after a publish that reported success ends with the
\* exception too, the ledger as it was; and a cycle that reports success and
\* ends without an exception has its row in the ledger.
C16_PersistenceFailuresPropagate ==
    /\ [][(CycleStep /\ last'.stage \in {"read_raised", "save_raised"})
            => ledger' = ledger]_vars
    /\ [](/\ last.stage = "read_raised" =>
                /\ last.raised
                /\ last.ledgerReads = 1
                /\ last.genreLookups = 0
                /\ last.artLookups = 0
                /\ last.postCalls = 0
                /\ last.sends = <<>>
                /\ last.saves = <<>>
          /\ last.stage = "save_raised" =>
                /\ last.raised
                /\ last.success
                /\ Len(last.saves) = 1
                /\ pc \in {"loop_check", "sleep"}
          /\ (last.success /\ ~last.raised) =>
                /\ last.stage = "recorded"
                /\ RowsOf(ledger, last.track.artist, last.track.title, clock) # {})

\* C16's case: the publish went through, save_post raised, and the script
\* stands in the scheduler loop with the track not in the ledger.
C16_Witness ==
    /\ last.stage = "save_raised"
    /\ last.raised
    /\ last.sends # <<>>
    /\ last.sends[1].ok
    /\ RowsOf(ledger, last.track.artist, last.track.title, clock) = {}
    /\ pc = "sleep"

\* The tags of the MusicBrainz response of a kind.
UpstreamTags(kind) ==
    IF kind = "none" THEN <<>>
    ELSE (CHOOSE r \in GenreResponses : r.kind = kind).tags

\* A text with every whitespace character removed.
WithoutWhitespace(s) == SelectSeq(s, LAMBDA c : c \notin Whitespace)

\* C17: the hashtag list a cycle passes to post_to_bluesky is #NowPlaying,
\* then # and the artist without its whitespace, then # and the genre without
\* its whitespace for each of the first 3 (at most) upstream genres in their
\* order; it has 2 to 5 entries and none contains a whitespace character.
C17_HashtagAssembly ==
    last.postCalls = 1 =>
        LET upstream == UpstreamTags(last.genreResp)
            used     == IF Len(upstream) < 3 THEN Len(upstream) ELSE 3
            h        == last.hashtags
        IN  /\ Len(h) = 2 + used
            /\ Len(h) >= 2 /\ Len(h) <= 5
            /\ h[1] = NowPlayingTag
            /\ h[2] = <<"#">> \o WithoutWhitespace(last.track.artist)
            /\ \A i \in 1..used :
                   h[2 + i] = <<"#">> \o WithoutWhitespace(upstream[i])
            /\ \A i \in DOMAIN h : \A j \in DOMAIN h[i] : h[i][j] \notin Whitespace

\* C18: create_hashtag_facets returns one facet per hashtag, in order; the
\* i-th facet's tag is the i-th hashtag without its first character; every
\* range has byte_start < byte_end, a later range begins at or after the end
\* of an earlier one, and each begins one position after the end of the one
\* before it. full_text is the caption, two newlines and the hashtags joined
\* by single spaces: counted in characters, as the code counts, the first
\* range begins after the two newlines, each range covers its hashtag in
\* full_text, one space stands before each later range, and the last range
\* ends full_text.
C18_FacetListStructure ==
    fc.called =>
        LET n == Len(fc.hashtags)
            f == fc.facets
            t == fc.full_text
            c == Len(fc.text)
        IN  /\ Len(f) = n
            /\ \A i \in 1..n :
                   /\ f[i].tag = SubSeq(fc.hashtags[i], 2, Len(fc.hashtags[i]))
                   /\ f[i].byte_start < f[i].byte_end
                   /\ SubSeq(t, f[i].byte_start + 1, f[i].byte_end) = fc.hashtags[i]
            /\ \A i, j \in 1..n : i < j => f[i].byte_end <= f[j].byte_start
            /\ \A i \in 2..n :
                   /\ f[i].byte_start = f[i - 1].byte_end + 1
                   /\ t[f[i].byte_start] = " "
            /\ Len(t) >= c + 2
            /\ SubSeq(t, 1, c) = fc.text
            /\ t[c + 1] = "\n" /\ t[c + 2] = "\n"
            /\ n > 0 => f[1].byte_start = c + 2 /\ f[n].byte_end = Len(t)
            /\ n = 0 => Len(t) = c + 2

\* C18's case: a caption with an en dash and two hashtags, the second with
\* an accented letter.
C18_Witness ==
    /\ fc.called
    /\ fc.text = DashCaption
    /\ fc.hashtags = <<NowPlayingTag, AccentTag>>
    /\ Len(fc.facets) = 2

====
